---- MODULE Spec2Model ----
(***************************************************************************)
(* The Chemical iterator-combinator library as state machines.             *)
(*                                                                         *)
(* src/chemical/iterators.py holds the adaptors (Skip, Step, Peekable,     *)
(* chain, zip, par_iter, ...) written against a base wrapper `it` with a   *)
(* forward cursor, an optional reverse cursor and (lower, upper) bounds.   *)
(* src/chemical/__init__.py holds the registry (`trait`) and an earlier    *)
(* set of adaptors registered under the same names ("core" below).         *)
(*                                                                         *)
(* A source is a finite sequence S.  Its forward cursor "F" hands out      *)
(* S[1], S[2], ... and its reverse cursor "B" hands out S[n], S[n-1], ...; *)
(* each keeps its own count of elements pulled (cnt).                      *)
(***************************************************************************)
EXTENDS Integers, Sequences, FiniteSets, TLC

\* ---------------------------------------------------------------- bounds
MaxLen == 3
NumObjs == 2
MaxTimes == 3
MaxStep == 3
MaxPeeks == 2
MaxChainLen == 2
MaxBound == 3
MaxParLen == 3
NumCores == 2
NumCtors == 2
MaxRegs == 2
MaxCalls == 1
MaxFilterLen == 2
MaxFlatLen == 2
MaxSubLen == 1
MaxDepthArg == 2
MaxPipe == 2
MaxSeed == 2

VARIABLES
    S,          \* the source sequence (element objects, by identity)
    impl,       \* "iterators" (iterators.py) or "core" (__init__.py)
    shape,      \* "fwd": it(S).skip(..)   "rev": it(S).rev().skip(k).rev()
    ks,         \* the `times` argument of each skip layer, innermost first
    times,      \* Skip.times of each layer (iterators.py counts it down)
    cnt,        \* elements pulled so far from cursor F and from cursor B
    last_item,  \* Skip.__get_reversed__: the last forward-skipped element
    out,        \* what the consumer has drained so far
    pc,         \* where the consumer is
    step,       \* Step.step
    ahead,      \* Peekable.ahead
    done,       \* Peekable.done
    can_peek,   \* Peekable.can_peek
    peeks,      \* what peek() returned since the last next()
    last,       \* the most recent call: its name, result and exception
    current_item, \* Current.current_item
    modified,   \* it._modified: next() has been called on the wrapper
    T,          \* the second source of chain / zip
    cntT,       \* elements pulled so far from T's cursors F and B
    rout,       \* what has been drained from the reverse cursor
    rpc,        \* where the consumer of the reverse cursor is
    bA,         \* bounds (lower, upper) of the pair an adaptor is applied to
    bB,         \* bounds of the other pair (chain, zip)
    bnd,        \* bounds of the resulting pair, or the exception raised
    bop,        \* the adaptor applied to bA
    submitted,  \* par_iter: the slots, each a pending Future or a value
    task,       \* par_iter: the pull task of each slot
    completed,  \* par_iter: a pull has raised StopIteration
    ppc,        \* par_iter: where the generator _process_items is
    obtained,   \* par_iter: the elements the workers' pulls have returned
    cursorKind, \* par_iter: what kind of cursor the_items is
    traits,     \* it.traits: the registry, name -> constructor
    pair,       \* the wrapper at hand, as the constructor calls that built it
    wrapped,    \* the `wrap` object __getattr__ returned, if one is held
    regLog,     \* every registration so far, in order
    req,        \* the wrapper and the registrations at the last request
    tlast,      \* the most recent request or call and its outcome
    pred,       \* filter: the elements filter_func is true of
    preserve_strings, \* flatten: the argument preserve_strings
    max_depth,  \* flatten: the argument max_depth (absent: None)
    pipe,       \* the adaptors applied so far, by name
    parg,       \* the integer argument of the last adaptor applied
    num_items,  \* take: the argument num_items
    seed,       \* scan: the argument seed
    closure,    \* scan: the argument closure, by name
    total,      \* accumulate: the running value of each cursor
    begun       \* accumulate: each cursor has handed out its first value

skipVars == <<shape, ks, times, last_item>>

peekVars == <<ahead, done, can_peek, peeks, last, current_item, modified>>

chainVars == <<T, cntT, rout, rpc>>

bndVars == <<bA, bB, bnd, bop>>

parVars == <<submitted, task, completed, ppc, obtained, cursorKind>>

traitVars == <<traits, pair, wrapped, regLog, req, tlast>>

\* The state of the registry, filter, flatten, pipeline and take models.
filterVars == <<pred>>

flatVars == <<preserve_strings, max_depth>>

pipeVars == <<pipe, parg>>

takeVars == <<num_items>>

scanVars == <<seed, closure, total, begun>>

extVars == <<traitVars, filterVars, flatVars, pipeVars, takeVars, scanVars>>

vars == <<S, out, pc, impl, cnt, skipVars, step, peekVars, chainVars, bndVars,
          parVars, extVars>>

\* What the actions of one adaptor leave alone.
skipFrame == <<step, peekVars, chainVars, bndVars, parVars, extVars>>

stepFrame == <<skipVars, peekVars, chainVars, bndVars, parVars, extVars>>

peekFrame == <<skipVars, step, chainVars, bndVars, parVars, extVars>>

chainFrame == <<skipVars, step, peekVars, parVars, extVars>>

bndFrame == <<S, out, pc, impl, cnt, skipVars, step, peekVars, chainVars,
              parVars, extVars>>

parFrame == <<pc, impl, skipVars, step, peekVars, chainVars, bndVars, extVars>>

\* None
NoneVal == -1

Objs == 1..NumObjs

SeqsUpTo(E, n) == UNION {[1..m -> E] : m \in 0..n}

Reverse(s) == [i \in 1..Len(s) |-> s[Len(s) + 1 - i]]

Drop(s, k) == [i \in 1..(Len(s) - k) |-> s[i + k]]

Take(s, k) == [i \in 1..k |-> s[i]]

IsPrefix(p, s) == Len(p) <= Len(s) /\ \A i \in 1..Len(p) : p[i] = s[i]

RECURSIVE SumSeq(_)
SumSeq(s) == IF s = <<>> THEN 0 ELSE s[1] + SumSeq(Tail(s))

NoCall == [op |-> "", ret |-> NoneVal, flag |-> FALSE, exc |-> "", after |-> <<>>]

\* The fields of adaptors that are not part of the pipeline at hand.
SkipIdle ==
    /\ shape = "fwd"
    /\ ks = <<>>
    /\ times = <<>>
    /\ last_item = NoneVal

PeekIdle ==
    /\ ahead = NoneVal
    /\ done = FALSE
    /\ can_peek = TRUE
    /\ peeks = <<>>
    /\ last = NoCall
    /\ current_item = NoneVal
    /\ modified = FALSE

ChainIdle ==
    /\ T = <<>>
    /\ cntT = [F |-> 0, B |-> 0]
    /\ rout = <<>>
    /\ rpc = "none"

\* An absent upper bound (None) and a present one.
NoUpper == [some |-> FALSE, v |-> 0]

Some(x) == [some |-> TRUE, v |-> x]

NoBounds == [lower |-> 0, upper |-> NoUpper, err |-> ""]

BndIdle ==
    /\ bA = NoBounds
    /\ bB = NoBounds
    /\ bnd = NoBounds
    /\ bop = ""

ParIdle ==
    /\ submitted = <<>>
    /\ task = <<>>
    /\ completed = FALSE
    /\ ppc = "none"
    /\ obtained = <<>>
    /\ cursorKind = "atomic"

NoRequest == [self |-> <<>>, name |-> "", log |-> <<>>]

NoTraitCall == [op |-> "", name |-> "", exc |-> "", arg |-> <<>>]

TraitIdle ==
    /\ traits = <<>>
    /\ pair = <<>>
    /\ wrapped = <<>>
    /\ regLog = <<>>
    /\ req = NoRequest
    /\ tlast = NoTraitCall

FilterIdle ==
    /\ pred = {}

FlatIdle ==
    /\ preserve_strings = TRUE
    /\ max_depth = Some(1)

PipeIdle ==
    /\ pipe = <<>>
    /\ parg = 0

TakeIdle ==
    /\ num_items = 0

ScanIdle ==
    /\ seed = 0
    /\ closure = ""
    /\ total = [F |-> NoneVal, B |-> NoneVal]
    /\ begun = [F |-> FALSE, B |-> FALSE]

ExtIdle ==
    /\ TraitIdle
    /\ FilterIdle
    /\ FlatIdle
    /\ PipeIdle
    /\ TakeIdle
    /\ ScanIdle

\* ------------------------------------------------------------- cursors
\* next() on a source cursor: the element and the advanced count, or
\* StopIteration (ok = FALSE) with the cursor left where it was.
PullCursor(st, c) ==
    LET i == st.cnt[c] + 1 IN
    IF i > Len(S)
    THEN [st EXCEPT !.ok = FALSE]
    ELSE [st EXCEPT !.cnt[c] = i, !.ok = TRUE,
                    !.val = IF c = "F" THEN S[i] ELSE S[Len(S) + 1 - i]]

\* The cursor a Skip holds as self.items and the one it holds as self.reverse:
\* rev() hands the reverse cursor over as the new forward one.
ItemsCur == IF shape = "fwd" THEN "F" ELSE "B"

ReverseCur == IF shape = "fwd" THEN "B" ELSE "F"

Max(x, y) == IF x >= y THEN x ELSE y

\* The bounds it(s) records for a sized sequence s.
SeqBounds(s) == [lower |-> Len(s), upper |-> Some(Len(s)), err |-> ""]

\* `if self._upper_bound:` is false for an absent upper and for 0.
UpperTruthy(u) == u.some /\ u.v # 0

\* ---------------------------------------------------------------- Skip
\* Skip.__init__ (iterators.py): assert times > 0.
SkipInitOk(k) == k > 0

\* Skip.__init__ (iterators.py): lower = max(0, lower - times);
\* if upper: upper -= times.
SkipBounds(b, k) ==
    [lower |-> Max(0, b.lower - k),
     upper |-> IF UpperTruthy(b.upper) THEN Some(b.upper.v - k) ELSE b.upper,
     err |-> ""]

RECURSIVE SkipBoundsAll(_, _)
SkipBoundsAll(l, b) ==
    IF l > Len(ks) THEN b ELSE SkipBoundsAll(l + 1, SkipBounds(b, ks[l]))

RECURSIVE SkipLoop(_, _), NextLayer(_, _), SkipLoopOffByOne(_, _)

\* A faulty SkipLoop: the loop stops one element early (while times > 1).
SkipLoopOffByOne(l, st) ==
    IF st.times[l] > 1
    THEN LET a == NextLayer(l - 1, st) IN
         IF ~a.ok THEN a
         ELSE LET b == PullCursor(a, ReverseCur) IN
              IF ~b.ok THEN b
              ELSE SkipLoopOffByOne(l, [b EXCEPT !.times[l] = @ - 1])
    ELSE NextLayer(l - 1, st)

\* Skip.__get_next__ of layer l: while self.times > 0: next(self.items);
\* next(self.reverse); self.times -= 1.  Then return next(self.items).
\* A StopIteration from either pull leaves the loop where it stood.
SkipLoop(l, st) ==
    IF st.times[l] > 0
    THEN LET a == NextLayer(l - 1, st) IN
         IF ~a.ok THEN a
         ELSE LET b == PullCursor(a, ReverseCur) IN
              IF ~b.ok THEN b
              ELSE SkipLoop(l, [b EXCEPT !.times[l] = @ - 1])
    ELSE NextLayer(l - 1, st)

\* next() on layer l of the pipeline; layer 0 is the source cursor.
NextLayer(l, st) ==
    IF l = 0 THEN PullCursor(st, ItemsCur) ELSE SkipLoop(l, st)

\* Skip.__init__ (__init__.py): for _ in range(times): next(self).
\* No check of times; range(times) is empty for times <= 0.
RECURSIVE CoreSkipInit(_, _)
CoreSkipInit(k, st) ==
    IF k <= 0 THEN [st EXCEPT !.ok = TRUE]
    ELSE LET a == PullCursor(st, "F") IN
         IF ~a.ok THEN a ELSE CoreSkipInit(k - 1, a)

RECURSIVE CoreSkipInitAll(_, _)
CoreSkipInitAll(l, st) ==
    IF l > Len(ks) THEN st
    ELSE LET a == CoreSkipInit(ks[l], st) IN
         IF ~a.ok THEN a ELSE CoreSkipInitAll(l + 1, a)

St0 == [cnt |-> cnt, times |-> times, ok |-> TRUE, val |-> NoneVal]

InitSkip ==
    /\ ExtIdle
    /\ S \in SeqsUpTo(Objs, MaxLen)
    /\ \/ /\ impl \in {"iterators", "core"}
          /\ shape = "fwd"
          /\ ks \in {<<k>> : k \in (-1)..MaxTimes}
                    \cup {<<a, b>> : a \in 1..MaxTimes, b \in 1..MaxTimes}
       \/ /\ impl = "iterators"
          /\ shape = "rev"
          /\ ks \in {<<k>> : k \in (-1)..MaxTimes}
    /\ times = <<>>
    /\ cnt = [F |-> 0, B |-> 0]
    /\ last_item = NoneVal
    /\ out = <<>>
    /\ pc = "new"
    /\ step = 1
    /\ PeekIdle
    /\ ChainIdle
    /\ BndIdle
    /\ ParIdle

\* it(S).skip(k1)[.skip(k2)] resp. it(S).rev().skip(k) with iterators.py.
SkipConstruct ==
    /\ pc = "new"
    /\ impl = "iterators"
    /\ IF \A l \in 1..Len(ks) : SkipInitOk(ks[l])
       THEN /\ times' = ks
            /\ bnd' = SkipBoundsAll(1, SeqBounds(S))
            /\ pc' = "ready"
       ELSE /\ times' = times
            /\ bnd' = bnd
            /\ pc' = "AssertionError"
    /\ UNCHANGED <<S, out, impl, shape, ks, cnt, last_item, step, peekVars,
                   chainVars, bA, bB, bop, parVars, extVars>>

\* it(S).skip(k1)[.skip(k2)] with __init__.py: the skipping happens here.
CoreSkipConstruct ==
    /\ pc = "new"
    /\ impl = "core"
    /\ LET r == CoreSkipInitAll(1, St0) IN
       /\ cnt' = r.cnt
       /\ times' = ks
       /\ pc' = IF r.ok THEN "ready" ELSE "StopIteration"
    /\ UNCHANGED <<S, out, impl, shape, ks, last_item, skipFrame>>

\* The consumer's next() on the outermost Skip (iterators.py).
SkipNext ==
    /\ pc = "ready"
    /\ impl = "iterators"
    /\ shape = "fwd"
    /\ LET r == NextLayer(Len(times), St0) IN
       /\ cnt' = r.cnt
       /\ times' = r.times
       /\ IF r.ok
          THEN /\ out' = Append(out, r.val)
               /\ pc' = pc
          ELSE /\ out' = out
               /\ pc' = "exhausted"
    /\ UNCHANGED <<S, impl, shape, ks, last_item, skipFrame>>

\* The consumer's next() on a core Skip: it.__next__, next(self.items).
CoreSkipNext ==
    /\ pc = "ready"
    /\ impl = "core"
    /\ LET r == PullCursor(St0, "F") IN
       /\ cnt' = r.cnt
       /\ IF r.ok
          THEN /\ out' = Append(out, r.val)
               /\ pc' = pc
          ELSE /\ out' = out
               /\ pc' = "exhausted"
    /\ UNCHANGED <<S, impl, shape, ks, times, last_item, skipFrame>>

RECURSIVE PullTimes(_, _, _), PullTimesAbsorbsStop(_, _, _)
\* A faulty comprehension that ends at the first failed pull instead of
\* letting the StopIteration leave the call.
PullTimesAbsorbsStop(k, c, st) ==
    IF k <= 0 THEN st
    ELSE LET a == PullCursor(st, c) IN
         IF ~a.ok THEN [a EXCEPT !.ok = TRUE]
         ELSE PullTimesAbsorbsStop(k - 1, c, a)

\* [next(self.items) for _ in range(self.times)]: up to k pulls from cursor
\* c; the first failing pull ends the comprehension with StopIteration.
PullTimes(k, c, st) ==
    IF k <= 0 THEN st
    ELSE LET a == PullCursor(st, c) IN
         IF ~a.ok THEN a ELSE PullTimes(k - 1, c, a)

\* Skip.__get_reversed__: last_item = [next(self.items) for _ in
\* range(self.times)][-1]; a StopIteration of the pulls leaves the call.
SkipGetReversed ==
    /\ pc = "ready"
    /\ impl = "iterators"
    /\ shape = "rev"
    /\ LET r == PullTimes(times[1], ItemsCur, St0) IN
       /\ cnt' = r.cnt
       /\ IF r.ok
          THEN /\ last_item' = r.val
               /\ pc' = "reversed"
          ELSE /\ last_item' = last_item
               /\ pc' = "StopIteration"
    /\ UNCHANGED <<S, out, impl, shape, ks, times, skipFrame>>

\* The predicate of take_while: lambda x: id(x) != id(last_item).
NotLastItem(x) == x # last_item

\* next() on it(self.reverse, ...).take_while(...): itertools.takewhile
\* ends at the first element the predicate rejects.
TakeWhileNext ==
    /\ pc = "reversed"
    /\ LET r == PullCursor(St0, ReverseCur) IN
       /\ cnt' = r.cnt
       /\ IF r.ok /\ NotLastItem(r.val)
          THEN /\ out' = Append(out, r.val)
               /\ pc' = pc
          ELSE /\ out' = out
               /\ pc' = "exhausted"
    /\ UNCHANGED <<S, impl, shape, ks, times, last_item, skipFrame>>

NextSkip ==
    \/ SkipConstruct
    \/ CoreSkipConstruct
    \/ SkipNext
    \/ CoreSkipNext
    \/ SkipGetReversed
    \/ TakeWhileNext

SpecSkip == InitSkip /\ [][NextSkip]_vars

\* ------------------------------------------------------- claims on Skip
SkipTotal == SumSeq(ks)

SkipInContract ==
    /\ shape = "fwd"
    /\ \A l \in 1..Len(ks) : ks[l] > 0
    /\ SkipTotal <= Len(S)

\* C1: for every finite source S and every k with 0 < k <= |S|, draining
\* skip(S, k) yields exactly S[k:] in order and then signals exhaustion;
\* skip(a) then skip(b) with a + b <= |S| yields S[a+b:].  Stated for both
\* registered Skip classes: construction succeeds, what has been drained is
\* always a prefix of the suffix, and at exhaustion it is the whole suffix.
C1_SkipYieldsSuffix ==
    SkipInContract =>
        /\ pc \in {"new", "ready", "exhausted"}
        /\ IsPrefix(out, Drop(S, SkipTotal))
        /\ pc = "exhausted" => out = Drop(S, SkipTotal)

C1_Witness ==
    /\ SkipInContract
    /\ impl = "iterators"
    /\ Len(ks) = 2
    /\ pc = "exhausted"
    /\ Len(out) > 0
    /\ out = Drop(S, SkipTotal)

\* C2: reversibility law: for every finite source S, repeated element
\* objects included, and 0 < k <= |S|, reverse(skip(reverse(S), k)) yields
\* exactly S[:|S|-k].
C2_ReversibilityLaw ==
    (shape = "rev" /\ pc = "exhausted" /\ ks[1] > 0 /\ ks[1] <= Len(S))
        => out = Take(S, Len(S) - ks[1])

\* C7: constructing skip(S, k) with k <= 0 fails with the precondition
\* violation and produces no cursor, for every source S.
C7_SkipPrecondition ==
    (pc # "new" /\ \E l \in 1..Len(ks) : ks[l] <= 0)
        => pc = "AssertionError"

\* C22: reversing skip(S, k) when S has fewer than k elements yields no
\* element and signals exhaustion: the reversal ends in StopIteration, no
\* element of the reverse cursor is returned (nothing is pulled from it and
\* no last item is chosen), and exactly the |S| available elements have
\* been pulled from the forward cursor of the Skip.
C22_ShortReverseEmpty ==
    (shape = "rev" /\ ks[1] > Len(S) /\ pc # "new" /\ pc # "ready")
        => /\ pc = "StopIteration"
           /\ out = <<>>
           /\ last_item = NoneVal
           /\ cnt[ReverseCur] = 0
           /\ cnt[ItemsCur] = Len(S)
           /\ cnt[ItemsCur] < ks[1]

C22_Witness ==
    /\ shape = "rev"
    /\ Len(S) = 2
    /\ ks[1] = 3
    /\ pc = "StopIteration"
    /\ cnt[ItemsCur] = 2
    /\ out = <<>>

\* ---------------------------------------------------------------- Step
\* math.ceil(a / b) on integers, b # 0.
CeilDiv(a, b) == IF b > 0 THEN -((-a) \div b) ELSE -(a \div (-b))

\* Step.__init__ (iterators.py): lower = max(0, int(math.ceil(lower / step)));
\* if upper: upper = int(math.ceil(upper / step)).
StepBounds(b, s) ==
    IF s = 0 THEN [b EXCEPT !.err = "ZeroDivisionError"]
    ELSE [lower |-> Max(0, CeilDiv(b.lower, s)),
          upper |-> IF UpperTruthy(b.upper) THEN Some(CeilDiv(b.upper.v, s))
                    ELSE b.upper,
          err |-> ""]

\* A faulty StepGetNext: the StopIteration of a discard is not absorbed.
StepGetNextPropagates(st) ==
    LET a == PullCursor(st, "F") IN
    IF ~a.ok THEN a
    ELSE LET d == PullTimes(step - 1, "F", a) IN
         IF d.ok THEN [d EXCEPT !.val = a.val] ELSE d

\* Step.__get_next__ / Step.__next__: nxt = next(self.items); then
\* step - 1 discards, a StopIteration among them swallowed; return nxt.
StepGetNext(st) ==
    LET a == PullCursor(st, "F") IN
    IF ~a.ok THEN a
    ELSE LET d == PullTimes(step - 1, "F", a) IN
         [d EXCEPT !.val = a.val, !.ok = TRUE]

InitStep ==
    /\ ExtIdle
    /\ S \in SeqsUpTo(Objs, MaxLen)
    /\ impl \in {"iterators", "core"}
    /\ step \in (-1)..MaxStep
    /\ SkipIdle
    /\ cnt = [F |-> 0, B |-> 0]
    /\ out = <<>>
    /\ pc = "new"
    /\ PeekIdle
    /\ ChainIdle
    /\ BndIdle
    /\ ParIdle

\* Step.__init__ (iterators.py): the bounds are divided by step, which
\* raises ZeroDivisionError for step = 0; no other check of step.
StepConstruct ==
    /\ pc = "new"
    /\ impl = "iterators"
    /\ LET b == StepBounds(SeqBounds(S), step) IN
       /\ bnd' = IF b.err = "" THEN b ELSE bnd
       /\ pc' = IF b.err = "" THEN "ready" ELSE b.err
    /\ UNCHANGED <<S, out, impl, cnt, step, skipVars, peekVars, chainVars,
                   bA, bB, bop, parVars, extVars>>

\* Step.__init__ (__init__.py): stores step, nothing else.
CoreStepConstruct ==
    /\ pc = "new"
    /\ impl = "core"
    /\ pc' = "ready"
    /\ UNCHANGED <<S, out, impl, cnt, stepFrame, step>>

\* The consumer's next() on the Step (the same code in both files).
StepNext ==
    /\ pc = "ready"
    /\ LET r == StepGetNext(St0) IN
       /\ cnt' = r.cnt
       /\ IF r.ok
          THEN /\ out' = Append(out, r.val)
               /\ pc' = pc
          ELSE /\ out' = out
               /\ pc' = "exhausted"
    /\ UNCHANGED <<S, impl, stepFrame, step>>

NextStep ==
    \/ StepConstruct
    \/ CoreStepConstruct
    \/ StepNext

SpecStep == InitStep /\ [][NextStep]_vars

\* S[0::s]
Stride(s, n) == [i \in 1..CeilDiv(Len(s), n) |-> s[(i - 1) * n + 1]]

\* C6: for every finite source S and every step s >= 1, draining
\* step_by(S, s) yields exactly S[0::s] in order; an element whose s - 1
\* discards run out of source is still returned, and exhaustion comes on
\* the following pull.  At every moment the output is the stride of what
\* has been pulled, and exhaustion is signalled only with all of S pulled.
C6_StepYieldsStride ==
    step >= 1 =>
        /\ pc \in {"new", "ready", "exhausted"}
        /\ out = Stride(Take(S, cnt.F), step)
        /\ pc = "exhausted" => (cnt.F = Len(S) /\ out = Stride(S, step))

\* The last element's discards were cut short, it was returned, and the
\* following pull signalled exhaustion.
C6_Witness ==
    /\ step = 2
    /\ Len(S) = 3
    /\ pc = "exhausted"
    /\ out = <<S[1], S[3]>>
    /\ S[1] # S[3]

\* C16: constructing step_by(S, s) with s <= 0 fails with the error of
\* skip's precondition (AssertionError), and with nothing else.
C16_StepPrecondition ==
    (pc # "new" /\ step <= 0) => pc = "AssertionError"

\* ------------------------------------------------------------ Peekable
\* Element values of a lookahead source: None, 0 and the objects.
PeekElems == {NoneVal} \cup (0..NumObjs)

\* `not x`: None and 0 are false.
Falsy(x) == x = NoneVal \/ x = 0

PSt0 == [cnt |-> cnt, ok |-> TRUE, val |-> NoneVal,
         ahead |-> ahead, done |-> done, ret |-> NoneVal, exc |-> ""]

\* Peekable.peek (iterators.py): NothingToPeek when done; a pull when
\* `not self.ahead`, its StopIteration turned into NothingToPeek.
PeekablePeek(ps) ==
    IF ps.done THEN [ps EXCEPT !.exc = "NothingToPeek"]
    ELSE IF Falsy(ps.ahead)
         THEN LET a == PullCursor(ps, "F") IN
              IF a.ok THEN [a EXCEPT !.ahead = a.val, !.ret = a.val]
              ELSE [a EXCEPT !.exc = "NothingToPeek"]
         ELSE [ps EXCEPT !.ret = ps.ahead]

\* Peekable.peek (__init__.py): StopIteration when done; the pull's
\* StopIteration leaves the call as it is.
CorePeekablePeek(ps) ==
    IF ps.done THEN [ps EXCEPT !.exc = "StopIteration"]
    ELSE IF Falsy(ps.ahead)
         THEN LET a == PullCursor(ps, "F") IN
              IF a.ok THEN [a EXCEPT !.ahead = a.val, !.ret = a.val]
              ELSE [a EXCEPT !.exc = "StopIteration"]
         ELSE [ps EXCEPT !.ret = ps.ahead]

\* A faulty PeekableGetNext: the buffer is cleared when the pull for the
\* following element fails.
PeekableGetNextClearsBuffer(ps) ==
    IF ps.done THEN [ps EXCEPT !.exc = "StopIteration"]
    ELSE LET a == IF Falsy(ps.ahead)
                  THEN LET q == PullCursor(ps, "F") IN
                       IF q.ok THEN [q EXCEPT !.ahead = q.val] ELSE q
                  ELSE ps
             b == PullCursor(a, "F")
         IN  IF b.ok THEN [b EXCEPT !.ret = a.ahead, !.ahead = b.val]
             ELSE [b EXCEPT !.ret = a.ahead, !.ahead = NoneVal,
                            !.done = TRUE]

\* Peekable.__get_next__ / Peekable.__next__ (the same code in both files).
PeekableGetNext(ps) ==
    IF ps.done THEN [ps EXCEPT !.exc = "StopIteration"]
    ELSE LET a == IF Falsy(ps.ahead)
                  THEN LET q == PullCursor(ps, "F") IN
                       IF q.ok THEN [q EXCEPT !.ahead = q.val] ELSE q
                  ELSE ps
             b == PullCursor(a, "F")
         IN  IF b.ok THEN [b EXCEPT !.ret = a.ahead, !.ahead = b.val]
             ELSE [b EXCEPT !.ret = a.ahead, !.done = TRUE]

InitPeek ==
    /\ ExtIdle
    /\ S \in SeqsUpTo(PeekElems, MaxLen)
    /\ impl \in {"iterators", "core"}
    /\ cnt = [F |-> 0, B |-> 0]
    /\ out = <<>>
    /\ pc = "ready"
    /\ step = 1
    /\ SkipIdle
    /\ PeekIdle
    /\ ChainIdle
    /\ BndIdle
    /\ ParIdle

\* peek()
Peek ==
    /\ pc \in {"ready", "exhausted"}
    /\ Len(peeks) < MaxPeeks
    /\ LET r == IF impl = "iterators" THEN PeekablePeek(PSt0)
                ELSE CorePeekablePeek(PSt0) IN
       /\ cnt' = r.cnt
       /\ ahead' = r.ahead
       /\ peeks' = IF r.exc = "" THEN Append(peeks, r.ret) ELSE peeks
       /\ last' = [op |-> "peek", ret |-> r.ret, flag |-> FALSE,
                   exc |-> r.exc, after |-> peeks]
    /\ UNCHANGED <<S, out, pc, impl, done, can_peek, current_item, modified,
                   peekFrame>>

\* next(): it.__next__ marks the wrapper as modified and calls
\* __get_next__; Current.__next__ keeps what it returned in current_item.
PeekNext ==
    /\ pc \in {"ready", "exhausted"}
    /\ LET r == PeekableGetNext(PSt0) IN
       /\ cnt' = r.cnt
       /\ ahead' = r.ahead
       /\ done' = r.done
       /\ out' = IF r.exc = "" THEN Append(out, r.ret) ELSE out
       /\ pc' = IF r.exc = "" THEN pc ELSE "exhausted"
       /\ peeks' = <<>>
       /\ current_item' = IF r.exc = "" THEN r.ret ELSE current_item
       /\ modified' = TRUE
       /\ last' = [op |-> "next", ret |-> r.ret, flag |-> FALSE,
                   exc |-> r.exc, after |-> peeks]
    /\ UNCHANGED <<S, impl, can_peek, peekFrame>>

\* Peekable.has_next (iterators.py): peek(), NothingToPeek swallowed and
\* recorded in can_peek, which is what it returns.
HasNext ==
    /\ pc \in {"ready", "exhausted"}
    /\ impl = "iterators"
    /\ LET r == PeekablePeek(PSt0)
           c == IF r.exc = "NothingToPeek" THEN FALSE ELSE can_peek
       IN  /\ cnt' = r.cnt
           /\ ahead' = r.ahead
           /\ can_peek' = c
           /\ last' = [op |-> "has_next", ret |-> NoneVal, flag |-> c,
                       exc |-> "", after |-> peeks]
    /\ UNCHANGED <<S, out, pc, impl, done, peeks, current_item, modified,
                   peekFrame>>

\* Current.curr (iterators.py; Current is a Peekable with current_item):
\* peek() while the wrapper is unmodified, current_item afterwards.
Curr ==
    /\ pc \in {"ready", "exhausted"}
    /\ impl = "iterators"
    /\ modified \/ Len(peeks) < MaxPeeks
    /\ LET r == IF modified THEN [PSt0 EXCEPT !.ret = current_item]
                ELSE PeekablePeek(PSt0) IN
       /\ cnt' = r.cnt
       /\ ahead' = r.ahead
       /\ peeks' = IF ~modified /\ r.exc = "" THEN Append(peeks, r.ret)
                   ELSE peeks
       /\ last' = [op |-> "curr", ret |-> r.ret, flag |-> FALSE,
                   exc |-> r.exc, after |-> peeks]
    /\ UNCHANGED <<S, out, pc, impl, done, can_peek, current_item, modified,
                   peekFrame>>

NextPeek ==
    \/ Peek
    \/ PeekNext
    \/ HasNext
    \/ Curr

SpecPeek == InitPeek /\ [][NextPeek]_vars

\* C5: peek idempotence: over any source (0 and None among its elements)
\* consecutive peek() calls with no next() in between all return the same
\* value, the following next() returns that value, and the cursor has moved
\* on by exactly one element (what next() has returned so far is S in order).
C5_PeekIdempotent ==
    /\ \A i, j \in 1..Len(peeks) : peeks[i] = peeks[j]
    /\ (last.op = "next" /\ last.exc = "" /\ last.after # <<>>) =>
           /\ \A i \in 1..Len(last.after) : last.after[i] = last.ret
           /\ IsPrefix(out, S)

\* C11: peek() raises NothingToPeek (not StopIteration, and not by handing
\* back a value) exactly when next() has already returned every element of
\* S, a fresh lookahead over the empty source included; otherwise it
\* returns the element that follows the ones next() has returned.
C11_PeekNothingToPeek ==
    last.op = "peek" =>
        IF Len(out) >= Len(S)
        THEN last.exc = "NothingToPeek"
        ELSE last.exc = "" /\ last.ret = S[Len(out) + 1]

\* C12: over a non-empty source, a curr() before the first next() returns
\* the value the peek() and curr() calls before it returned, and a curr()
\* after a next() returns what the most recent next() returned.
C12_CurrFollowsNext ==
    (Len(S) > 0 /\ last.op = "curr") =>
        /\ last.exc = ""
        /\ IF modified
           THEN out # <<>> /\ last.ret = out[Len(out)]
           ELSE \A i \in 1..Len(last.after) : last.after[i] = last.ret

\* C17: Peekable is transparent.  Whatever peek() and has_next() calls
\* come between the pulls, what next() has returned is the elements of S
\* in order, each once; next() signals exhaustion only after all of them
\* and returns nothing beyond them; has_next() returns true exactly when
\* next() has not yet returned all of S.
C17_PeekableTransparent ==
    /\ IsPrefix(out, S)
    /\ (last.op = "next" /\ last.exc # "") => out = S
    /\ last.op = "has_next" => (last.flag <=> Len(out) < Len(S))

\* C18: the lookahead state invariant.  Whenever done is set, ahead holds
\* the value the last successful next() returned; and from a state with
\* done set, done stays set, the buffer and the output stay as they are,
\* and a next() or peek() made there fails.
C18_LookaheadInvariant ==
    /\ [](done => (out # <<>> /\ ahead = out[Len(out)]))
    /\ [][done =>
            /\ done'
            /\ ahead' = ahead
            /\ out' = out
            /\ (last' # last /\ last'.op \in {"next", "peek"}) =>
                   last'.exc \in {"StopIteration", "NothingToPeek"}]_vars

\* After the source ran out (done set by the next() that returned its
\* last element), a next() and then a peek() were made and failed.
C18_Witness ==
    /\ done
    /\ Len(S) = 2
    /\ out = S
    /\ pc = "exhausted"
    /\ last.op = "peek"
    /\ last.exc = "NothingToPeek"

\* --------------------------------------------------------------- bounds
\* None + n and n + None raise TypeError.
AddUpper(x, y) ==
    IF x.some /\ y.some THEN [upper |-> Some(x.v + y.v), err |-> ""]
    ELSE [upper |-> NoUpper, err |-> "TypeError"]

\* chain_it: (self._lower_bound + chained._lower_bound,
\*            self._upper_bound + chained._upper_bound)
ChainBounds(a, b) ==
    LET u == AddUpper(a.upper, b.upper) IN
    [lower |-> a.lower + b.lower, upper |-> u.upper, err |-> u.err]

\* zip_it: (self._lower_bound + other_it._lower_bound,
\*          self._upper_bound + other_it._upper_bound)
ZipBounds(a, b) ==
    LET u == AddUpper(a.upper, b.upper) IN
    [lower |-> a.lower + b.lower, upper |-> u.upper, err |-> u.err]

\* Well-formed bounds: lower >= 0, upper absent or lower <= upper.
WellFormedBounds ==
    {[lower |-> l, upper |-> NoUpper, err |-> ""] : l \in 0..MaxBound}
    \cup UNION {{[lower |-> l, upper |-> Some(u), err |-> ""] : l \in 0..u} :
                   u \in 0..MaxBound}

InitBounds ==
    /\ ExtIdle
    /\ bA \in WellFormedBounds
    /\ bB \in WellFormedBounds
    /\ bnd = NoBounds
    /\ bop = ""
    /\ S = <<>>
    /\ impl = "iterators"
    /\ cnt = [F |-> 0, B |-> 0]
    /\ out = <<>>
    /\ pc = "new"
    /\ step = 1
    /\ SkipIdle
    /\ PeekIdle
    /\ ChainIdle
    /\ ParIdle

\* A.chain(B): the bounds of the new pair, or the exception of computing them.
ChainApply ==
    /\ bop = ""
    /\ bnd' = ChainBounds(bA, bB)
    /\ bop' = "chain"
    /\ UNCHANGED <<bA, bB, bndFrame>>

\* A.zip(B)
ZipApply ==
    /\ bop = ""
    /\ bnd' = ZipBounds(bA, bB)
    /\ bop' = "zip"
    /\ UNCHANGED <<bA, bB, bndFrame>>

NextBounds ==
    \/ ChainApply
    \/ ZipApply

SpecBounds == InitBounds /\ [][NextBounds]_vars

Min(x, y) == IF x <= y THEN x ELSE y

\* C9: chain(A, B) has lower bound lower(A) + lower(B), upper bound
\* upper(A) + upper(B) when both are present and an absent upper when either
\* is absent; constructing the chain never fails for an absent upper bound.
C9_ChainBounds ==
    bop = "chain" =>
        /\ bnd.err = ""
        /\ bnd.lower = bA.lower + bB.lower
        /\ bnd.upper = IF bA.upper.some /\ bB.upper.some
                       THEN Some(bA.upper.v + bB.upper.v)
                       ELSE NoUpper

\* C10: zip(A, B) reports lower bound min(lower(A), lower(B)) and upper
\* bound min(upper(A), upper(B)), absent only if both uppers are absent.
C10_ZipBounds ==
    bop = "zip" =>
        /\ bnd.err = ""
        /\ bnd.lower = Min(bA.lower, bB.lower)
        /\ bnd.upper = IF bA.upper.some /\ bB.upper.some
                       THEN Some(Min(bA.upper.v, bB.upper.v))
                       ELSE IF bA.upper.some THEN bA.upper
                       ELSE bB.upper

\* --------------------------------------------------------------- chain
ChSt0 == [cnt |-> cnt, cntT |-> cntT, ok |-> TRUE, val |-> NoneVal]

\* next() on a cursor of the second source T.
PullCursorT(cs, c) ==
    LET i == cs.cntT[c] + 1 IN
    IF i > Len(T)
    THEN [cs EXCEPT !.ok = FALSE]
    ELSE [cs EXCEPT !.cntT[c] = i, !.ok = TRUE,
                    !.val = IF c = "F" THEN T[i] ELSE T[Len(T) + 1 - i]]

\* itertools.chain(self, chained): the first cursor until it is exhausted,
\* then the second.
ChainFwd(cs) ==
    LET a == PullCursor(cs, "F") IN
    IF a.ok THEN a ELSE PullCursorT(cs, "F")

\* A faulty ChainRev: the halves are reversed but not swapped.
ChainRevNotSwapped(cs) ==
    LET a == PullCursor(cs, "B") IN
    IF a.ok THEN a ELSE PullCursorT(cs, "B")

\* itertools.chain(chained.rev(), self.rev()): the second source's reverse
\* cursor, then the first's.
ChainRev(cs) ==
    LET a == PullCursorT(cs, "B") IN
    IF a.ok THEN a ELSE PullCursor(cs, "B")

InitChain ==
    /\ ExtIdle
    /\ S \in SeqsUpTo(Objs, MaxChainLen)
    /\ T \in SeqsUpTo(Objs, MaxChainLen)
    /\ impl \in {"iterators", "core"}
    /\ cnt = [F |-> 0, B |-> 0]
    /\ cntT = [F |-> 0, B |-> 0]
    /\ out = <<>>
    /\ rout = <<>>
    /\ pc = "new"
    /\ rpc = "none"
    /\ step = 1
    /\ SkipIdle
    /\ PeekIdle
    /\ BndIdle
    /\ ParIdle

\* it(S).chain(T) with iterators.py: both cursors and the bounds.
ChainConstruct ==
    /\ pc = "new"
    /\ impl = "iterators"
    /\ LET b == ChainBounds(SeqBounds(S), SeqBounds(T)) IN
       /\ bnd' = IF b.err = "" THEN b ELSE bnd
       /\ pc' = IF b.err = "" THEN "ready" ELSE b.err
       /\ rpc' = IF b.err = "" THEN "ready" ELSE "none"
    /\ UNCHANGED <<S, out, impl, cnt, T, cntT, rout, bA, bB, bop, chainFrame>>

\* it(S).chain(T) with __init__.py: it(chain(self, collection)); the
\* wrapper of that file has no reverse (it.__reversed__ raises).
CoreChainConstruct ==
    /\ pc = "new"
    /\ impl = "core"
    /\ pc' = "ready"
    /\ UNCHANGED <<S, out, impl, cnt, chainVars, bndVars, chainFrame>>

\* next() on the chain's forward cursor.
ChainNext ==
    /\ pc = "ready"
    /\ LET r == ChainFwd(ChSt0) IN
       /\ cnt' = r.cnt
       /\ cntT' = r.cntT
       /\ IF r.ok
          THEN /\ out' = Append(out, r.val)
               /\ pc' = pc
          ELSE /\ out' = out
               /\ pc' = "exhausted"
    /\ UNCHANGED <<S, impl, T, rout, rpc, bndVars, chainFrame>>

\* next() on the chain's reverse cursor.
ChainRevNext ==
    /\ rpc = "ready"
    /\ LET r == ChainRev(ChSt0) IN
       /\ cnt' = r.cnt
       /\ cntT' = r.cntT
       /\ IF r.ok
          THEN /\ rout' = Append(rout, r.val)
               /\ rpc' = rpc
          ELSE /\ rout' = rout
               /\ rpc' = "exhausted"
    /\ UNCHANGED <<S, out, pc, impl, T, bndVars, chainFrame>>

NextChain ==
    \/ ChainConstruct
    \/ CoreChainConstruct
    \/ ChainNext
    \/ ChainRevNext

SpecChain == InitChain /\ [][NextChain]_vars

\* C8: for all finite source sequences A and B, draining chain(A, B)
\* forward yields A followed by B in order, and draining its reverse (both
\* sides reversible) yields reverse(B) followed by reverse(A).
C8_ChainConcat ==
    /\ pc \in {"new", "ready", "exhausted"}
    /\ IsPrefix(out, S \o T)
    /\ pc = "exhausted" => out = S \o T
    /\ IsPrefix(rout, Reverse(T) \o Reverse(S))
    /\ rpc = "exhausted" => rout = Reverse(T) \o Reverse(S)

C8_Witness ==
    /\ pc = "exhausted"
    /\ rpc = "exhausted"
    /\ S = <<1, 2>>
    /\ T = <<2, 2>>
    /\ out = <<1, 2, 2, 2>>
    /\ rout = <<2, 2, 2, 1>>

\* ------------------------------------------------------------ par_iter
\* The generator _process_items(the_items), past its first bare `yield`
\* and driven by next().  One pull task per slot and round runs on the
\* pool: lambda s, idx: (idx, next(s)).  Nothing in the code guards the
\* shared cursor, so what concurrent pulls do depends on the cursor:
\*   "atomic"     a built-in iterator (iter of a list or range): next() is
\*                one step under the interpreter lock;
\*   "racy"       a cursor written in Python (Peekable.__get_next__, ...):
\*                next() reads the position and later advances it, and the
\*                pulls of different workers interleave;
\*   "generator"  a generator (flatten, for_each): next() on a generator
\*                that is executing raises ValueError.
\* The generator is modelled both as consumed directly (pc = "generator")
\* and as par_iter itself uses it (pc = "new"): par_iter takes only the
\* first next() of the generator, the None of the bare `yield`, and leaves
\* the generator suspended there.
Slots == 1..NumCores

CursorKinds == {"atomic", "racy", "generator"}

Future == [fut |-> TRUE, v |-> NoneVal]

Value(x) == [fut |-> FALSE, v |-> x]

NoTask == [st |-> "none", rd |-> 0, ok |-> FALSE, val |-> NoneVal, exc |-> ""]

InitPar ==
    /\ ExtIdle
    /\ S \in {[i \in 1..n |-> i] : n \in 0..MaxParLen}
    /\ cursorKind \in CursorKinds
    /\ cnt = [F |-> 0, B |-> 0]
    /\ out = <<>>
    /\ submitted = [i \in Slots |-> Value(NoneVal)]
    /\ task = [i \in Slots |-> NoTask]
    /\ completed = FALSE
    /\ \/ pc = "generator" /\ ppc = "submit"
       \/ pc = "new" /\ ppc = "suspended"
    /\ obtained = <<>>
    /\ impl = "iterators"
    /\ step = 1
    /\ SkipIdle
    /\ PeekIdle
    /\ ChainIdle
    /\ BndIdle

\* while not completed: for i in range(num_cores): submitted[i] =
\* pool.submit(...)
Submit ==
    /\ ppc = "submit"
    /\ submitted' = [i \in Slots |-> Future]
    /\ task' = [i \in Slots |-> [NoTask EXCEPT !.st = "queued"]]
    /\ ppc' = "wait"
    /\ UNCHANGED <<S, out, cnt, completed, obtained, cursorKind, parFrame>>

\* What next(s) returns to the task of slot i from cursor position p.
Pulled(i, p) ==
    IF p < Len(S)
    THEN [task[i] EXCEPT !.st = "done", !.ok = TRUE, !.val = S[p + 1]]
    ELSE [task[i] EXCEPT !.st = "done", !.ok = FALSE, !.exc = "StopIteration"]

\* The task of slot i finishes with tk, having found the cursor at p.
Finish(i, p, tk) ==
    /\ task' = [task EXCEPT ![i] = tk]
    /\ cnt' = IF tk.ok THEN [cnt EXCEPT !.F = p + 1] ELSE cnt
    /\ obtained' = IF tk.ok THEN Append(obtained, tk.val) ELSE obtained

\* next(s) on a built-in iterator, by the worker running slot i.
TaskPull(i) ==
    /\ ppc = "wait"
    /\ cursorKind = "atomic"
    /\ task[i].st = "queued"
    /\ Finish(i, cnt.F, Pulled(i, cnt.F))
    /\ UNCHANGED <<S, out, submitted, completed, ppc, cursorKind, parFrame>>

\* A worker enters next(s) for slot i: it reads the shared cursor, or is
\* turned away by a generator that is already executing.
TaskBegin(i) ==
    /\ ppc = "wait"
    /\ cursorKind # "atomic"
    /\ task[i].st = "queued"
    /\ IF cursorKind = "generator" /\ \E j \in Slots : task[j].st = "pulling"
       THEN task' = [task EXCEPT ![i].st = "done", ![i].exc = "ValueError"]
       ELSE task' = [task EXCEPT ![i].st = "pulling", ![i].rd = cnt.F]
    /\ UNCHANGED <<S, out, cnt, submitted, completed, ppc, obtained,
                   cursorKind, parFrame>>

\* The worker leaves next(s): the element after the position it read and
\* the cursor advanced past it, or StopIteration.
TaskEnd(i) ==
    /\ ppc = "wait"
    /\ task[i].st = "pulling"
    /\ Finish(i, task[i].rd, Pulled(i, task[i].rd))
    /\ UNCHANGED <<S, out, submitted, completed, ppc, cursorKind, parFrame>>

\* for value in as_completed(submitted): index, val = value.result();
\* submitted[index] = val; except StopIteration: completed = True.
\* Any other exception of a task leaves the generator.
Collect ==
    /\ ppc = "wait"
    /\ \A i \in Slots : task[i].st = "done"
    /\ IF \E i \in Slots : task[i].exc = "ValueError"
       THEN /\ ppc' = "ValueError"
            /\ UNCHANGED <<submitted, completed>>
       ELSE /\ submitted' = [i \in Slots |->
                                IF task[i].ok THEN Value(task[i].val)
                                ELSE submitted[i]]
            /\ completed' = (completed \/ \E i \in Slots : ~task[i].ok)
            /\ ppc' = "yield"
    /\ UNCHANGED <<S, out, cnt, task, obtained, cursorKind, parFrame>>

RECURSIVE Yielded(_)
Yielded(i) ==
    IF i > NumCores THEN <<>>
    ELSE (IF submitted[i].fut THEN <<>> ELSE <<submitted[i].v>>)
         \o Yielded(i + 1)

\* for value in submitted: if not isinstance(value, Future): yield value;
\* then the next round, or the end of the generator.
YieldRound ==
    /\ ppc = "yield"
    /\ out' = out \o Yielded(1)
    /\ ppc' = IF completed THEN "done" ELSE "submit"
    /\ UNCHANGED <<S, cnt, submitted, task, completed, obtained, cursorKind,
                   parFrame>>

\* it(S).par_iter(): forward = next(_process_items(self.items)) is None,
\* and it(None, ...) fails in it.__init__ (iter(None) is a TypeError).
ParIterCall ==
    /\ pc = "new"
    /\ pc' = "TypeError"
    /\ UNCHANGED <<S, out, cnt, impl, skipVars, step, peekVars, chainVars,
                   bndVars, parVars, extVars>>

NextPar ==
    \/ ParIterCall
    \/ Submit
    \/ \E i \in Slots : TaskPull(i)
    \/ \E i \in Slots : TaskBegin(i)
    \/ \E i \in Slots : TaskEnd(i)
    \/ Collect
    \/ YieldRound

SpecPar == InitPar /\ [][NextPar]_vars

SpecParFair == SpecPar /\ WF_vars(NextPar)

\* The number of times x occurs in s.
Count(s, x) == Cardinality({i \in 1..Len(s) : s[i] = x})

\* C21: par_iter drains and stops.  Every element yielded is an element of
\* the source (never None or a pending Future); once a pull has raised
\* StopIteration no further round of tasks is submitted; the output ends,
\* and when it has ended it holds every element of the source exactly once.
C21_ParIterDrains ==
    /\ [](\A i \in 1..Len(out) : \E j \in 1..Len(S) : out[i] = S[j])
    /\ [](ppc = "done" =>
             /\ Len(out) = Len(S)
             /\ \A j \in 1..Len(S) : Count(out, S[j]) = 1)
    /\ [][completed => ~(ppc = "submit" /\ ppc' = "wait")]_vars
    /\ <>(ppc = "done")

\* -------------------------------------------------------------- filter
\* filter_it (iterators.py): the built-in filter over the forward cursor
\* and over the reverse cursor, bounds (0, upper).  Filter (__init__.py):
\* a class whose __next__ loops `while res := next(self.items)`.
FSt0 == [cnt |-> cnt, ok |-> TRUE, val |-> NoneVal]

\* next() of filter(filter_func, cursor c): the next element filter_func
\* is true of, or the StopIteration of the cursor.
RECURSIVE FilterNextOn(_, _)
FilterNextOn(st, c) ==
    LET a == PullCursor(st, c) IN
    IF ~a.ok THEN a
    ELSE IF a.val \in pred THEN a
    ELSE FilterNextOn(a, c)

\* Filter.__next__ (__init__.py): a falsy res ends the while loop and the
\* method returns None; the StopIteration of next(self.items) propagates.
RECURSIVE CoreFilterGetNext(_)
CoreFilterGetNext(st) ==
    LET a == PullCursor(st, "F") IN
    IF ~a.ok THEN a
    ELSE IF Falsy(a.val) THEN [a EXCEPT !.val = NoneVal]
    ELSE IF a.val \in pred THEN a
    ELSE CoreFilterGetNext(a)

FilterBounds(b) == [lower |-> 0, upper |-> b.upper, err |-> ""]

InitFilter ==
    /\ S \in SeqsUpTo(PeekElems, MaxFilterLen)
    /\ pred \in SUBSET PeekElems
    /\ impl \in {"iterators", "core"}
    /\ cnt = [F |-> 0, B |-> 0]
    /\ out = <<>>
    /\ pc = "new"
    /\ step = 1
    /\ TraitIdle
    /\ FlatIdle
    /\ PipeIdle
    /\ TakeIdle
    /\ ScanIdle
    /\ SkipIdle
    /\ PeekIdle
    /\ ChainIdle
    /\ BndIdle
    /\ ParIdle

filterFrame == <<skipVars, step, peekVars, parVars, traitVars, flatVars,
                 pipeVars, takeVars,
               scanVars>>

\* it(S).filter(filter_func) with iterators.py
FilterConstruct ==
    /\ pc = "new"
    /\ impl = "iterators"
    /\ pc' = "ready"
    /\ rpc' = "ready"
    /\ bnd' = FilterBounds(SeqBounds(S))
    /\ UNCHANGED <<S, out, impl, cnt, pred, T, cntT, rout, bA, bB, bop,
                   filterFrame>>

\* it(S).filter(filter_func) with __init__.py: Filter.__init__
CoreFilterConstruct ==
    /\ pc = "new"
    /\ impl = "core"
    /\ pc' = "ready"
    /\ UNCHANGED <<S, out, impl, cnt, pred, chainVars, bndVars, filterFrame>>

\* The consumer's next() on the filter.
FilterNext ==
    /\ pc = "ready"
    /\ LET r == IF impl = "iterators" THEN FilterNextOn(FSt0, "F")
                ELSE CoreFilterGetNext(FSt0) IN
       /\ cnt' = r.cnt
       /\ out' = IF r.ok THEN Append(out, r.val) ELSE out
       /\ pc' = IF r.ok THEN "ready" ELSE "exhausted"
    /\ UNCHANGED <<S, impl, pred, chainVars, bndVars, filterFrame>>

\* The consumer's next() on the reverse cursor of the filter.
FilterRevNext ==
    /\ rpc = "ready"
    /\ LET r == FilterNextOn(FSt0, "B") IN
       /\ cnt' = r.cnt
       /\ rout' = IF r.ok THEN Append(rout, r.val) ELSE rout
       /\ rpc' = IF r.ok THEN "ready" ELSE "exhausted"
    /\ UNCHANGED <<S, out, pc, impl, pred, T, cntT, bndVars, filterFrame>>

NextFilter ==
    \/ FilterConstruct
    \/ CoreFilterConstruct
    \/ FilterNext
    \/ FilterRevNext

SpecFilter == InitFilter /\ [][NextFilter]_vars

\* The elements of s that filter_func is true of, in order.
Satisfying(s) == SelectSeq(s, LAMBDA x : x \in pred)

\* C14: what has been drained from filter(S, p) is the elements satisfying
\* p among those pulled from S, in order, 0 and None included; when next()
\* signals exhaustion all of S has been pulled, so the drain is exactly the
\* satisfying elements of S.
C14_FilterYieldsSatisfying ==
    /\ out = Satisfying(Take(S, cnt.F))
    /\ pc = "exhausted" => out = Satisfying(S)

\* ------------------------------------------------------------- flatten
\* flatten (iterators.py): the generator deepflatten_generic over the
\* wrapper and over its reverse cursor, bounds (lower, None).  An element
\* is an int, a str (its characters) or a list of elements.
IntEl(n) == [kind |-> "int", v |-> n, txt |-> <<>>, xs |-> <<>>]

StrEl(s) == [kind |-> "str", v |-> 0, txt |-> s, xs |-> <<>>]

ListEl(l) == [kind |-> "list", v |-> 0, txt |-> <<>>, xs |-> l]

Atoms == {IntEl(1), StrEl(<<1, 2>>)}

Nested == Atoms \cup {ListEl(l) : l \in SeqsUpTo(Atoms, MaxSubLen)}

\* isinstance(x, Iterable)
IsIterable(x) == x.kind \in {"list", "str"}

\* for y in x: the items of a list, the one-character strs of a str.
IterOf(x) ==
    IF x.kind = "list" THEN x.xs
    ELSE [i \in 1..Len(x.txt) |-> StrEl(<<x.txt[i]>>)]

\* depth < max_depth, max_depth = None standing for math.inf
DepthBelowMax(depth) == ~max_depth.some \/ depth < max_depth.v

\* isinstance(x, Iterable) and (preserve_strings or not isinstance(x,
\* (str, bytes))) and (depth < max_depth)
Descends(x, depth) ==
    /\ IsIterable(x)
    /\ (preserve_strings \/ x.kind # "str")
    /\ DepthBelowMax(depth)

\* deepflatten_generic(xs, depth): what the generator yields, and the
\* exception that ends it.  A one-character str iterates to itself: with
\* no max_depth the recursion into it ends in RecursionError.
RECURSIVE DeepFlatten(_, _)
DeepFlatten(xs, depth) ==
    IF xs = <<>> THEN [seq |-> <<>>, err |-> ""]
    ELSE LET x == Head(xs)
             h == IF Descends(x, depth)
                  THEN IF x.kind = "str" /\ Len(x.txt) = 1 /\ ~max_depth.some
                       THEN [seq |-> <<>>, err |-> "RecursionError"]
                       ELSE DeepFlatten(IterOf(x), depth + 1)
                  ELSE [seq |-> <<x>>, err |-> ""]
         IN  IF h.err # "" THEN h
             ELSE LET r == DeepFlatten(Tail(xs), depth) IN
                  [seq |-> h.seq \o r.seq, err |-> r.err]

\* (self.size_hint()[0], None)
FlattenBounds(b) == [lower |-> b.lower, upper |-> NoUpper, err |-> ""]

InitFlatten ==
    /\ S \in SeqsUpTo(Nested, MaxFlatLen)
    /\ preserve_strings \in BOOLEAN
    /\ max_depth \in {NoUpper} \cup {Some(d) : d \in 0..MaxDepthArg}
    /\ impl = "iterators"
    /\ cnt = [F |-> 0, B |-> 0]
    /\ out = <<>>
    /\ pc = "new"
    /\ step = 1
    /\ TraitIdle
    /\ FilterIdle
    /\ PipeIdle
    /\ TakeIdle
    /\ ScanIdle
    /\ SkipIdle
    /\ PeekIdle
    /\ ChainIdle
    /\ BndIdle
    /\ ParIdle

flatFrame == <<skipVars, step, peekVars, parVars, traitVars, filterVars,
               pipeVars, takeVars,
               scanVars>>

\* it(S).flatten(preserve_strings, max_depth)
FlattenConstruct ==
    /\ pc = "new"
    /\ pc' = "ready"
    /\ rpc' = "ready"
    /\ bnd' = FlattenBounds(SeqBounds(S))
    /\ UNCHANGED <<S, out, impl, cnt, flatVars, T, cntT, rout, bA, bB, bop,
                   flatFrame>>

\* The k-th next() on a generator that yields r.seq and then ends, with
\* StopIteration or with r.err.
GenNext(r, k) ==
    IF k <= Len(r.seq) THEN [ok |-> TRUE, val |-> r.seq[k], to |-> "ready"]
    ELSE [ok |-> FALSE, val |-> IntEl(0),
          to |-> IF r.err = "" THEN "exhausted" ELSE r.err]

\* The consumer's next() on the flattened forward cursor.
FlattenNext ==
    /\ pc = "ready"
    /\ LET g == GenNext(DeepFlatten(S, 0), Len(out) + 1) IN
       /\ out' = IF g.ok THEN Append(out, g.val) ELSE out
       /\ pc' = g.to
    /\ UNCHANGED <<S, impl, cnt, flatVars, chainVars, bndVars, flatFrame>>

\* The consumer's next() on the flattened reverse cursor.
FlattenRevNext ==
    /\ rpc = "ready"
    /\ LET g == GenNext(DeepFlatten(Reverse(S), 0), Len(rout) + 1) IN
       /\ rout' = IF g.ok THEN Append(rout, g.val) ELSE rout
       /\ rpc' = g.to
    /\ UNCHANGED <<S, out, pc, impl, cnt, flatVars, T, cntT, bndVars,
                   flatFrame>>

NextFlatten ==
    \/ FlattenConstruct
    \/ FlattenNext
    \/ FlattenRevNext

SpecFlatten == InitFlatten /\ [][NextFlatten]_vars

\* xs flattened to max_depth with every str kept whole.
RECURSIVE FlatAtomicStr(_, _)
FlatAtomicStr(xs, depth) ==
    IF xs = <<>> THEN <<>>
    ELSE LET x == Head(xs) IN
         (IF x.kind = "list" /\ DepthBelowMax(depth)
          THEN FlatAtomicStr(x.xs, depth + 1)
          ELSE <<x>>)
         \o FlatAtomicStr(Tail(xs), depth)

\* C15: with preserve_strings set, the forward drain of flatten is S
\* flattened to max_depth with every str yielded whole, at either nesting
\* depth and for every max_depth, and ends with exhaustion, not an error.
C15_FlattenPreservesStrings ==
    preserve_strings =>
        /\ pc \in {"new", "ready", "exhausted"}
        /\ IsPrefix(out, FlatAtomicStr(S, 0))
        /\ pc = "exhausted" => out = FlatAtomicStr(S, 0)

\* ---------------------------------------------------------------- take
\* take (iterators.py): itertools.islice(self, num_items) with bounds
\* [num_items] * 2.  take (__init__.py): the generator expression
\* (next(self) for i in range(num_items)), in which the StopIteration of
\* next(self) becomes RuntimeError.
\* take: [num_items] * 2
TakeBounds(b, n) == [lower |-> n, upper |-> Some(n), err |-> ""]

InitTake ==
    /\ S \in SeqsUpTo(Objs, MaxLen)
    /\ num_items \in 0..MaxBound
    /\ impl \in {"iterators", "core"}
    /\ cnt = [F |-> 0, B |-> 0]
    /\ out = <<>>
    /\ pc = "new"
    /\ step = 1
    /\ TraitIdle
    /\ FilterIdle
    /\ FlatIdle
    /\ PipeIdle
    /\ ScanIdle
    /\ SkipIdle
    /\ PeekIdle
    /\ ChainIdle
    /\ BndIdle
    /\ ParIdle

takeFrame == <<skipVars, step, peekVars, chainVars, parVars, traitVars,
               filterVars, flatVars, pipeVars, scanVars>>

\* it(S).take(num_items) with iterators.py
TakeConstruct ==
    /\ pc = "new"
    /\ impl = "iterators"
    /\ pc' = "ready"
    /\ bnd' = TakeBounds(SeqBounds(S), num_items)
    /\ UNCHANGED <<S, out, impl, cnt, num_items, bA, bB, bop, takeFrame>>

\* it(S).take(num_items) with __init__.py
CoreTakeConstruct ==
    /\ pc = "new"
    /\ impl = "core"
    /\ pc' = "ready"
    /\ UNCHANGED <<S, out, impl, cnt, num_items, bndVars, takeFrame>>

\* next() of islice(self, num_items), or of the generator expression:
\* after num_items elements the end, before that a pull.
TakeGetNext(st) ==
    IF Len(out) >= num_items THEN [st EXCEPT !.ok = FALSE, !.exc = ""]
    ELSE LET a == PullCursor(st, "F") IN
         IF a.ok THEN a
         ELSE [a EXCEPT !.exc = IF impl = "core" THEN "RuntimeError" ELSE ""]

\* The consumer's next() on the take.
TakeNext ==
    /\ pc = "ready"
    /\ LET r == TakeGetNext([cnt |-> cnt, ok |-> TRUE, val |-> NoneVal,
                             exc |-> ""]) IN
       /\ cnt' = r.cnt
       /\ out' = IF r.ok THEN Append(out, r.val) ELSE out
       /\ pc' = IF r.ok THEN "ready"
                ELSE IF r.exc = "" THEN "exhausted" ELSE r.exc
    /\ UNCHANGED <<S, impl, num_items, bndVars, takeFrame>>

NextTake ==
    \/ TakeConstruct
    \/ CoreTakeConstruct
    \/ TakeNext

SpecTake == InitTake /\ [][NextTake]_vars

\* C20: the bounds take(n) reports over a source of exact bounds are
\* (min(lower, n), n), and the number of elements its drain yields is at
\* least the reported lower bound and at most the reported upper bound.
C20_BoundsSound ==
    (impl = "iterators" /\ pc # "new") =>
        /\ bnd.lower = Min(Len(S), num_items)
        /\ bnd.upper = Some(num_items)
        /\ pc = "exhausted" =>
               /\ bnd.lower <= Len(out)
               /\ bnd.upper.some => Len(out) <= bnd.upper.v

\* ---------------------------------------------------------------- scan
\* The closures scan is applied with, by name.
Closures == {"mul", "add", "first"}

\* closure(a, b)
Apply(f, a, b) ==
    IF f = "mul" THEN a * b
    ELSE IF f = "add" THEN a + b
    ELSE a

\* The seeds: small integers, and None.
Seeds == (0..MaxSeed) \cup {NoneVal}

\* next() on itertools.accumulate(cursor c, closure, initial=seed): the
\* first call hands out the initial value without a pull (with initial None,
\* the first element pulled); each later call pulls one element and hands
\* out closure(total, element).  A failed pull is StopIteration.
AccumulateNext(st, c) ==
    IF ~st.begun[c] /\ st.total[c] # NoneVal
    THEN [st EXCEPT !.begun[c] = TRUE, !.ok = TRUE, !.val = st.total[c]]
    ELSE LET a == PullCursor(st, c) IN
         IF ~a.ok THEN a
         ELSE LET t == IF ~st.begun[c] THEN a.val
                       ELSE Apply(closure, st.total[c], a.val) IN
              [a EXCEPT !.begun[c] = TRUE, !.total[c] = t, !.val = t]

ScSt0 == [cnt |-> cnt, total |-> total, begun |-> begun, ok |-> TRUE,
          val |-> NoneVal]

InitScan ==
    /\ S \in SeqsUpTo(Objs, MaxLen)
    /\ seed \in Seeds
    /\ closure \in Closures
    /\ total = [F |-> NoneVal, B |-> NoneVal]
    /\ begun = [F |-> FALSE, B |-> FALSE]
    /\ impl = "iterators"
    /\ cnt = [F |-> 0, B |-> 0]
    /\ out = <<>>
    /\ pc = "new"
    /\ step = 1
    /\ TraitIdle
    /\ FilterIdle
    /\ FlatIdle
    /\ PipeIdle
    /\ TakeIdle
    /\ SkipIdle
    /\ PeekIdle
    /\ ChainIdle
    /\ BndIdle
    /\ ParIdle

scanFrame == <<skipVars, step, peekVars, parVars, traitVars, filterVars,
               flatVars, pipeVars, takeVars>>

\* it(S).scan(seed, closure): two accumulate cursors, each seeded with
\* seed, and the bounds of the source unchanged.
ScanConstruct ==
    /\ pc = "new"
    /\ total' = [F |-> seed, B |-> seed]
    /\ pc' = "ready"
    /\ rpc' = "ready"
    /\ bnd' = SeqBounds(S)
    /\ UNCHANGED <<S, out, impl, cnt, seed, closure, begun, T, cntT, rout,
                   bA, bB, bop, scanFrame>>

\* The consumer's next() on the scan.
ScanNext ==
    /\ pc = "ready"
    /\ LET r == AccumulateNext(ScSt0, "F") IN
       /\ cnt' = r.cnt
       /\ total' = r.total
       /\ begun' = r.begun
       /\ out' = IF r.ok THEN Append(out, r.val) ELSE out
       /\ pc' = IF r.ok THEN "ready" ELSE "exhausted"
    /\ UNCHANGED <<S, impl, seed, closure, chainVars, bndVars, scanFrame>>

\* The consumer's next() on the reverse cursor of the scan.
ScanRevNext ==
    /\ rpc = "ready"
    /\ LET r == AccumulateNext(ScSt0, "B") IN
       /\ cnt' = r.cnt
       /\ total' = r.total
       /\ begun' = r.begun
       /\ rout' = IF r.ok THEN Append(rout, r.val) ELSE rout
       /\ rpc' = IF r.ok THEN "ready" ELSE "exhausted"
    /\ UNCHANGED <<S, out, pc, impl, seed, closure, T, cntT, bndVars,
                   scanFrame>>

NextScan ==
    \/ ScanConstruct
    \/ ScanNext
    \/ ScanRevNext

SpecScan == InitScan /\ [][NextScan]_vars

\* f(...f(f(seed, s1), s2)..., si)
RECURSIVE FoldTo(_)
FoldTo(i) == IF i = 0 THEN seed ELSE Apply(closure, FoldTo(i - 1), S[i])

RunningFold == [i \in 1..Len(S) |-> FoldTo(i)]

\* C23: for every finite source S = s1..sn, seed z and closure f, draining
\* scan(z, f) over S yields exactly n elements, the i-th being
\* f(...f(f(z, s1), s2)..., si), so that the unchanged bounds scan reports
\* are true bounds on the length of its output.
C23_ScanRunningFold ==
    (pc # "new" /\ seed # NoneVal) =>
        /\ bnd = SeqBounds(S)
        /\ pc = "exhausted" =>
               /\ Len(out) = Len(S)
               /\ out = RunningFold
               /\ bnd.lower <= Len(out)
               /\ bnd.upper.some => Len(out) <= bnd.upper.v

\* ------------------------------------------------- bounds of a pipeline
\* The bounds as adaptor after adaptor of iterators.py is applied: bA is
\* what the last adaptor was applied to, bnd what it made of it, bB the
\* bounds of the other pair when the adaptor is chain or zip.
InitPipeline ==
    /\ bA \in WellFormedBounds
    /\ bnd = bA
    /\ bB = NoBounds
    /\ bop = ""
    /\ pipe = <<>>
    /\ parg = 0
    /\ S = <<>>
    /\ impl = "iterators"
    /\ cnt = [F |-> 0, B |-> 0]
    /\ out = <<>>
    /\ pc = "ready"
    /\ step = 1
    /\ TraitIdle
    /\ FilterIdle
    /\ FlatIdle
    /\ TakeIdle
    /\ ScanIdle
    /\ SkipIdle
    /\ PeekIdle
    /\ ChainIdle
    /\ ParIdle

pipeFrame == <<S, out, impl, cnt, skipVars, step, peekVars, chainVars,
               parVars, traitVars, filterVars, flatVars, takeVars,
               scanVars>>

\* The adaptor op with argument n makes b of the bounds at hand, or fails.
Applied(op, n, b) ==
    /\ pc = "ready"
    /\ Len(pipe) < MaxPipe
    /\ bA' = bnd
    /\ bnd' = IF b.err = "" THEN b ELSE bnd
    /\ pc' = IF b.err = "" THEN "ready" ELSE b.err
    /\ pipe' = Append(pipe, op)
    /\ bop' = op
    /\ parg' = n
    /\ UNCHANGED pipeFrame

PipeSkip(k) ==
    /\ SkipInitOk(k)
    /\ Applied("skip", k, SkipBounds(bnd, k))
    /\ UNCHANGED bB

PipeStep(s) ==
    /\ Applied("step_by", s, StepBounds(bnd, s))
    /\ UNCHANGED bB

PipeTake(n) ==
    /\ Applied("take", n, TakeBounds(bnd, n))
    /\ UNCHANGED bB

PipeFilter ==
    /\ Applied("filter", 0, FilterBounds(bnd))
    /\ UNCHANGED bB

PipeFlatten ==
    /\ Applied("flatten", 0, FlattenBounds(bnd))
    /\ UNCHANGED bB

PipeChain(b) ==
    /\ Applied("chain", 0, ChainBounds(bnd, b))
    /\ bB' = b

PipeZip(b) ==
    /\ Applied("zip", 0, ZipBounds(bnd, b))
    /\ bB' = b

NextPipeline ==
    \/ \E k \in 1..MaxTimes : PipeSkip(k)
    \/ \E s \in 1..MaxStep : PipeStep(s)
    \/ \E n \in 0..MaxBound : PipeTake(n)
    \/ PipeFilter
    \/ PipeFlatten
    \/ \E b \in WellFormedBounds : PipeChain(b)
    \/ \E b \in WellFormedBounds : PipeZip(b)

SpecPipeline == InitPipeline /\ [][NextPipeline]_vars

\* lower >= 0, and upper absent or a non-negative integer >= lower
WellFormed(b) ==
    /\ b.lower >= 0
    /\ b.upper.some => (b.upper.v >= 0 /\ b.lower <= b.upper.v)

\* C19: the bounds of a pipeline of adaptors over a source with well-formed
\* bounds are well formed after every adaptor; after skip(k) the lower
\* bound is max(0, lower - k) and the upper bound is present exactly when
\* it was, upper - k where k does not exceed it, also for an upper of 0.
C19_BoundsWellFormed ==
    pc = "ready" =>
        /\ WellFormed(bnd)
        /\ (pipe # <<>> /\ bop = "skip") =>
               /\ bnd.lower = Max(0, bA.lower - parg)
               /\ bnd.upper.some <=> bA.upper.some
               /\ (bA.upper.some /\ parg <= bA.upper.v) =>
                      bnd.upper.v = bA.upper.v - parg

\* ------------------------------------------------------ trait registry
\* it.traits, trait() and it.__getattr__ (__init__.py).  A constructor is
\* an opaque callable; the wrapper it returns is written as the wrapper it
\* was given followed by <<constructor, argument>>.
Ctors == 1..NumCtors

\* The names in play: "next" is a method of `it`, found by the normal
\* attribute lookup, so that __getattr__ is never called for it.
Names == {"foo", "Foo", "next"}

OwnAttrs == {"next"}

Args == 1..NumObjs

\* str.lower
Lower(n) == IF n = "Foo" THEN "foo" ELSE n

\* A faulty SetTrait: an existing entry is kept (dict.setdefault).
SetTraitKeepsFirst(reg, key, clazz) ==
    [n \in DOMAIN reg \cup {key} |->
        IF n \in DOMAIN reg THEN reg[n] ELSE clazz]

\* it.traits[key] = clazz
SetTrait(reg, key, clazz) ==
    [n \in DOMAIN reg \cup {key} |-> IF n = key THEN clazz ELSE reg[n]]

\* wrap.__call__: self.clazz(self.items, *args)
WrapCall(w, arg) == Append(w.items, <<w.clazz, arg>>)

InitTrait ==
    /\ TraitIdle
    /\ FilterIdle
    /\ FlatIdle
    /\ PipeIdle
    /\ TakeIdle
    /\ S = <<>>
    /\ impl = "core"
    /\ cnt = [F |-> 0, B |-> 0]
    /\ out = <<>>
    /\ pc = "ready"
    /\ step = 1
    /\ ScanIdle
    /\ SkipIdle
    /\ PeekIdle
    /\ ChainIdle
    /\ BndIdle
    /\ ParIdle

traitFrame == <<S, out, pc, impl, cnt, skipVars, step, peekVars, chainVars,
                bndVars, parVars, filterVars, flatVars, pipeVars, takeVars,
               scanVars>>

\* trait('name')(clazz): the registration under the given name.
TraitNamed(name, clazz) ==
    /\ Len(regLog) < MaxRegs
    /\ traits' = SetTrait(traits, name, clazz)
    /\ regLog' = Append(regLog, <<name, clazz>>)
    /\ UNCHANGED <<pair, wrapped, req, tlast, traitFrame>>

\* @trait on a class or function called cname: the registration under
\* cname.lower().
TraitBare(cname, clazz) ==
    /\ Len(regLog) < MaxRegs
    /\ traits' = SetTrait(traits, Lower(cname), clazz)
    /\ regLog' = Append(regLog, <<Lower(cname), clazz>>)
    /\ UNCHANGED <<pair, wrapped, req, tlast, traitFrame>>

\* wrapper.name: the attribute itself for a name of `it`; otherwise
\* __getattr__: TraitException for a name the registry lacks, else a wrap
\* of the wrapper and the registered constructor.  The caller holds the
\* outcome of its latest request only.
GetAttr(name) ==
    /\ req' = [self |-> pair, name |-> name, log |-> regLog]
    /\ IF name \in OwnAttrs
       THEN /\ tlast' = [op |-> "attribute", name |-> name, exc |-> "",
                         arg |-> <<>>]
            /\ wrapped' = <<>>
       ELSE IF name \notin DOMAIN traits
       THEN /\ tlast' = [op |-> "getattr", name |-> name,
                         exc |-> "TraitException", arg |-> <<>>]
            /\ wrapped' = <<>>
       ELSE /\ tlast' = [op |-> "getattr", name |-> name, exc |-> "",
                         arg |-> <<>>]
            /\ wrapped' = <<[items |-> pair, clazz |-> traits[name],
                            name |-> name]>>
    /\ UNCHANGED <<traits, pair, regLog, traitFrame>>

\* wrap(...)(arg): the call of the wrap __getattr__ returned; what it
\* returns is the wrapper the caller goes on with.
Call(arg) ==
    /\ wrapped # <<>>
    /\ Len(pair) < MaxCalls
    /\ pair' = WrapCall(wrapped[1], arg)
    /\ wrapped' = <<>>
    /\ tlast' = [op |-> "call", name |-> wrapped[1].name, exc |-> "",
                 arg |-> <<arg>>]
    /\ UNCHANGED <<traits, regLog, req, traitFrame>>

NextTrait ==
    \/ \E n \in Names, c \in Ctors : TraitNamed(n, c)
    \/ \E n \in Names, c \in Ctors : TraitBare(n, c)
    \/ \E n \in Names : GetAttr(n)
    \/ \E a \in Args : Call(a)

SpecTrait == InitTrait /\ [][NextTrait]_vars

\* The registrations of log under name, in order.
RegsOf(log, name) == SelectSeq(log, LAMBDA e : e[1] = name)

\* C13: a request for a name that is not an attribute of the wrapper and
\* was never registered raises TraitException; a request for a registered
\* name succeeds, and calling what it returned with an argument gives the
\* result of the constructor registered last under that name at the time
\* of the request, applied to the requesting wrapper and the argument.
C13_TraitDispatch ==
    /\ tlast.op = "getattr" =>
           (tlast.exc = "TraitException" <=> RegsOf(req.log, req.name) = <<>>)
    /\ (tlast.op = "getattr" /\ tlast.exc = "") =>
           /\ wrapped # <<>>
           /\ wrapped[1].items = req.self
    /\ tlast.op = "call" =>
           LET regs == RegsOf(req.log, req.name) IN
           /\ regs # <<>>
           /\ pair = Append(req.self, <<regs[Len(regs)][2], tlast.arg[1]>>)

\* A name registered twice, with different constructors, has been
\* requested and called.
C13_Witness ==
    /\ tlast.op = "call"
    /\ Len(RegsOf(req.log, req.name)) = 2
    /\ RegsOf(req.log, req.name)[1][2] # RegsOf(req.log, req.name)[2][2]
    /\ Len(pair) = 1

====
